---- MODULE Spec2Model ----
(***************************************************************************)
(* tsh, a tiny shell with job control (src/tsh.c).                         *)
(*                                                                         *)
(* The model holds the job table, the kernel's view of the shell's         *)
(* children, the SIGCHLD pending bit and mask, the position of the main    *)
(* flow (eval, do_bgfg, waitfg, the pipeline loops) and the position of    *)
(* sigchld_handler, which runs as an interruption of the main flow.        *)
(***************************************************************************)
EXTENDS Integers, Sequences, FiniteSets, TLC

\* Size of the job table.  tsh.c sets 16; the model runs a smaller table.
MAXJOBS == 4
\* Process ids the kernel hands out (and reuses once a child is reaped).
MaxPid == 5
\* Forks the main flow performs in one run of the whole command set.
MaxForks == 3
\* Forks the main flow performs in one run without bg/fg/quit commands.
MaxLaunches == 5
\* Stages of one pipeline.
MaxStages == 2

\* Job states
UNDEF == 0
FG == 1
BG == 2
ST == 3

Pids == 1..MaxPid
Slots == 1..MAXJOBS

VARIABLES
    jobs,          \* struct job_t jobs[MAXJOBS]
    nextjid,       \* next job ID to allocate
    proc,          \* kernel: state of each child process id
    stages,        \* kernel: pids that are pipeline stages (shell's own group)
    pending,       \* SIGCHLD is pending for the shell
    blocked,       \* SIGCHLD is in the main flow's signal mask
    hpc,           \* sigchld_handler: "idle" or "run"
    pc,            \* main flow position
    pid,           \* eval's / do_bgfg's local pid
    bg,            \* eval's local bg
    cmd,           \* argv[0] class of the running command
    job,           \* do_bgfg's local job (slot index, 0 = NULL)
    i,             \* eval's pipeline loop index
    num_commands,  \* eval's num_commands
    wpid,          \* waitfg's parameter pid
    out,           \* what the main flow printed for the running command
    found,         \* history: the record *job held when do_bgfg looked it up
    forks_left     \* forks the run may still perform

locals == <<pid, bg, cmd, job, i, num_commands, wpid, out, found>>
vars == <<jobs, nextjid, proc, stages, pending, blocked, hpc, pc,
          pid, bg, cmd, job, i, num_commands, wpid, out, found, forks_left>>

(***************************************************************************)
(* The job list helper routines                                            *)
(***************************************************************************)
Min(S) == CHOOSE x \in S : \A y \in S : x <= y

Max(S) == CHOOSE x \in S : \A y \in S : x >= y

\* The command line a job is registered with: a background one ends in '&'.
CmdLine(b) == IF b THEN "prog &" ELSE "prog"

EmptyJob == [pid |-> 0, jid |-> 0, state |-> UNDEF, cmdline |-> ""]

clearjob(t, s) == [t EXCEPT ![s] = EmptyJob]

initjobs == [s \in Slots |-> EmptyJob]

maxjid(t) == Max({0} \cup {t[s].jid : s \in Slots})

\* An addjob that advances the job-number counter before it finds the table full.
addjob_counts_first(t, nj, p, state, cmdline) ==
    IF p < 1
    THEN [jobs |-> t, nextjid |-> nj, ret |-> 0, msg |-> "none"]
    ELSE IF \E s \in Slots : t[s].pid = 0
    THEN LET s == Min({x \in Slots : t[x].pid = 0})
         IN [jobs |-> [t EXCEPT ![s] = [pid |-> p, jid |-> nj,
                                        state |-> state, cmdline |-> cmdline]],
             nextjid |-> IF nj + 1 > MAXJOBS THEN 1 ELSE nj + 1,
             ret |-> 1, msg |-> "none"]
    ELSE [jobs |-> t, nextjid |-> IF nj + 1 > MAXJOBS THEN 1 ELSE nj + 1,
          ret |-> 0, msg |-> "toomany"]

addjob(t, nj, p, state, cmdline) ==
    IF p < 1
    THEN [jobs |-> t, nextjid |-> nj, ret |-> 0, msg |-> "none"]
    ELSE IF \E s \in Slots : t[s].pid = 0
    THEN LET s == Min({x \in Slots : t[x].pid = 0})
         IN [jobs |-> [t EXCEPT ![s] = [pid |-> p, jid |-> nj,
                                        state |-> state, cmdline |-> cmdline]],
             nextjid |-> IF nj + 1 > MAXJOBS THEN 1 ELSE nj + 1,
             ret |-> 1, msg |-> "none"]
    ELSE [jobs |-> t, nextjid |-> nj, ret |-> 0, msg |-> "toomany"]

deletejob(t, nj, p) ==
    IF p < 1
    THEN [jobs |-> t, nextjid |-> nj, ret |-> 0]
    ELSE IF \E s \in Slots : t[s].pid = p
    THEN LET s == Min({x \in Slots : t[x].pid = p})
             cleared == clearjob(t, s)
         IN [jobs |-> cleared, nextjid |-> maxjid(cleared) + 1, ret |-> 1]
    ELSE [jobs |-> t, nextjid |-> nj, ret |-> 0]

fgpid(t) ==
    IF \E s \in Slots : t[s].state = FG
    THEN t[Min({x \in Slots : t[x].state = FG})].pid
    ELSE 0

\* The slot of the record found, 0 for NULL.
getjobpid(t, p) ==
    IF p < 1 THEN 0
    ELSE IF \E s \in Slots : t[s].pid = p
    THEN Min({x \in Slots : t[x].pid = p})
    ELSE 0

getjobjid(t, j) ==
    IF j < 1 THEN 0
    ELSE IF \E s \in Slots : t[s].jid = j
    THEN Min({x \in Slots : t[x].jid = j})
    ELSE 0

pid2jid(t, p) ==
    IF p < 1 THEN 0
    ELSE IF \E s \in Slots : t[s].pid = p
    THEN t[Min({x \in Slots : t[x].pid = p})].jid
    ELSE 0

(***************************************************************************)
(* The kernel's side: children and their process groups                    *)
(***************************************************************************)
ProcStates == {"none", "run", "stop_new", "stopped", "zomb_exit", "zomb_sig"}

Zombie(p) == proc[p] \in {"zomb_exit", "zomb_sig"}

\* What waitpid(-1, &status, WNOHANG | WUNTRACED) can return.
Reportable(p) == proc[p] \in {"zomb_exit", "zomb_sig", "stop_new"}

\* kill(-p, sig) finds a process group p: a single-command child made itself
\* the leader of its own group (setpgid(0, 0)); a pipeline stage did not.
GroupExists(p) == p \in Pids /\ proc[p] # "none" /\ p \notin stages

\* The process group of the shell itself; a child's own group carries its pid.
ShellPgrp == 0

\* The process group child p runs its program in: the one it entered with
\* setpgid(0, 0), or the one it inherited from the shell at fork.
pgrp(p) == IF p \in stages THEN ShellPgrp ELSE p

\* Nothing printed yet by the running command.
NoOut == [msg |-> "none", jid |-> -1, pid |-> -1]

\* The pid fork() returns.  Process ids are interchangeable, so the kernel's
\* choice among the free ones is reduced to the two cases the shell can tell
\* apart: the lowest free pid that no job record mentions, and the lowest
\* free pid that a job record still mentions (a reused pid).
ForkPids ==
    LET free == {p \in Pids : proc[p] = "none"}
        used == {p \in free : getjobpid(jobs, p) # 0}
        fresh == free \ used
    IN (IF fresh = {} THEN {} ELSE {Min(fresh)})
       \cup (IF used = {} THEN {} ELSE {Min(used)})

Alive == pc \notin {"exit0", "exit1"}

\* The state main() reaches before the first prompt; budget bounds the run.
InitState(budget) ==
    /\ jobs = initjobs
    /\ nextjid = 1
    /\ proc = [p \in Pids |-> "none"]
    /\ stages = {}
    /\ pending = FALSE
    /\ blocked = FALSE
    /\ hpc = "idle"
    /\ pc = "prompt"
    /\ pid = 0
    /\ bg = FALSE
    /\ cmd = "none"
    /\ job = 0
    /\ i = 0
    /\ num_commands = 0
    /\ wpid = 0
    /\ out = NoOut
    /\ found = EmptyJob
    /\ forks_left = budget

Init == InitState(MaxForks)

(***************************************************************************)
(* Children change state on their own                                      *)
(***************************************************************************)
ChildExit(p) ==
    /\ Alive
    /\ proc[p] = "run"
    /\ proc' = [proc EXCEPT ![p] = "zomb_exit"]
    /\ pending' = TRUE
    /\ UNCHANGED <<jobs, nextjid, stages, blocked, hpc, pc, locals, forks_left>>

ChildStop(p) ==
    /\ Alive
    /\ proc[p] = "run"
    /\ proc' = [proc EXCEPT ![p] = "stop_new"]
    /\ pending' = TRUE
    /\ UNCHANGED <<jobs, nextjid, stages, blocked, hpc, pc, locals, forks_left>>

(***************************************************************************)
(* sigchld_handler                                                         *)
(***************************************************************************)
\* The kernel delivers a pending SIGCHLD that the mask lets through; while
\* the handler runs SIGCHLD is held back (Signal installs it without
\* SA_NODEFER) and the main flow does not advance.
HandlerEnter ==
    /\ Alive
    /\ hpc = "idle"
    /\ pending
    /\ ~blocked
    /\ hpc' = "run"
    /\ pending' = FALSE
    /\ UNCHANGED <<jobs, nextjid, proc, stages, blocked, pc, locals, forks_left>>

\* A handler that lists a stopped job as a background one.
HandlerReap_stop_as_bg(p) ==
    /\ Alive
    /\ hpc = "run"
    /\ Reportable(p)
    /\ IF proc[p] = "stop_new"
       THEN /\ proc' = [proc EXCEPT ![p] = "stopped"]
            /\ stages' = stages
            /\ jobs' = IF getjobpid(jobs, p) # 0
                       THEN [jobs EXCEPT ![getjobpid(jobs, p)].state = BG]
                       ELSE jobs
            /\ nextjid' = nextjid
       ELSE /\ proc' = [proc EXCEPT ![p] = "none"]
            /\ stages' = stages \ {p}
            /\ IF proc[p] = "zomb_sig" /\ getjobpid(jobs, p) = 0
               THEN UNCHANGED <<jobs, nextjid>>
               ELSE /\ jobs' = deletejob(jobs, nextjid, p).jobs
                    /\ nextjid' = deletejob(jobs, nextjid, p).nextjid
    /\ UNCHANGED <<pending, blocked, hpc, pc, locals, forks_left>>

\* One turn of the while loop: waitpid returned p, the table is updated with
\* every signal blocked.
HandlerReap(p) ==
    /\ Alive
    /\ hpc = "run"
    /\ Reportable(p)
    /\ IF proc[p] = "stop_new"
       THEN /\ proc' = [proc EXCEPT ![p] = "stopped"]
            /\ stages' = stages
            /\ jobs' = IF getjobpid(jobs, p) # 0
                       THEN [jobs EXCEPT ![getjobpid(jobs, p)].state = ST]
                       ELSE jobs
            /\ nextjid' = nextjid
       ELSE /\ proc' = [proc EXCEPT ![p] = "none"]
            /\ stages' = stages \ {p}
            /\ IF proc[p] = "zomb_sig" /\ getjobpid(jobs, p) = 0
               THEN UNCHANGED <<jobs, nextjid>>
               ELSE /\ jobs' = deletejob(jobs, nextjid, p).jobs
                    /\ nextjid' = deletejob(jobs, nextjid, p).nextjid
    /\ UNCHANGED <<pending, blocked, hpc, pc, locals, forks_left>>

\* A handler that returns while a child's state change is still uncollected.
HandlerReturn_early ==
    /\ Alive
    /\ hpc = "run"
    /\ hpc' = "idle"
    /\ UNCHANGED <<jobs, nextjid, proc, stages, pending, blocked, pc, locals, forks_left>>

\* waitpid returned 0 (or -1, no children): the loop ends.
HandlerReturn ==
    /\ Alive
    /\ hpc = "run"
    /\ \A p \in Pids : ~Reportable(p)
    /\ hpc' = "idle"
    /\ UNCHANGED <<jobs, nextjid, proc, stages, pending, blocked, pc, locals, forks_left>>

(***************************************************************************)
(* sigint_handler, sigtstp_handler                                         *)
(***************************************************************************)
\* A sigint_handler that takes the interrupted job off the table itself.
sigint_handler_deletes ==
    /\ Alive
    /\ LET fg_pid == fgpid(jobs)
       IN IF fg_pid # 0 /\ GroupExists(fg_pid) /\ proc[fg_pid] = "run"
          THEN /\ proc' = [proc EXCEPT ![fg_pid] = "zomb_sig"]
               /\ pending' = TRUE
               /\ jobs' = deletejob(jobs, nextjid, fg_pid).jobs
               /\ nextjid' = deletejob(jobs, nextjid, fg_pid).nextjid
          ELSE UNCHANGED <<proc, pending, jobs, nextjid>>
    /\ UNCHANGED <<stages, blocked, hpc, pc, locals, forks_left>>

\* kill(-fg_pid, SIGINT): a running process of the group is terminated.
sigint_handler ==
    /\ Alive
    /\ LET fg_pid == fgpid(jobs)
       IN IF fg_pid # 0 /\ GroupExists(fg_pid) /\ proc[fg_pid] = "run"
          THEN /\ proc' = [proc EXCEPT ![fg_pid] = "zomb_sig"]
               /\ pending' = TRUE
          ELSE UNCHANGED <<proc, pending>>
    /\ UNCHANGED <<jobs, nextjid, stages, blocked, hpc, pc, locals, forks_left>>

\* kill(-fg_pid, SIGTSTP): a running process of the group is stopped.
sigtstp_handler ==
    /\ Alive
    /\ LET fg_pid == fgpid(jobs)
       IN IF fg_pid # 0 /\ GroupExists(fg_pid) /\ proc[fg_pid] = "run"
          THEN /\ proc' = [proc EXCEPT ![fg_pid] = "stop_new"]
               /\ pending' = TRUE
          ELSE UNCHANGED <<proc, pending>>
    /\ UNCHANGED <<jobs, nextjid, stages, blocked, hpc, pc, locals, forks_left>>

(***************************************************************************)
(* eval: a single command                                                  *)
(***************************************************************************)
Main == Alive /\ hpc = "idle"

\* A launch that forks without blocking SIGCHLD first.
EvalFork_unblocked(b, p) ==
    /\ Main
    /\ pc = "prompt"
    /\ forks_left > 0
    /\ p \in ForkPids
    /\ blocked' = FALSE
    /\ proc' = [proc EXCEPT ![p] = "run"]
    /\ pid' = p
    /\ bg' = b
    /\ cmd' = "launch"
    /\ pc' = "forked"
    /\ forks_left' = forks_left - 1
    /\ UNCHANGED <<jobs, nextjid, stages, pending, hpc, job, i, num_commands, wpid, out, found>>

\* sigprocmask(SIG_BLOCK, &mask_one, &prev_one); pid = fork()
EvalFork(b, p) ==
    /\ Main
    /\ pc = "prompt"
    /\ forks_left > 0
    /\ p \in ForkPids
    /\ blocked' = TRUE
    /\ proc' = [proc EXCEPT ![p] = "run"]
    /\ pid' = p
    /\ bg' = b
    /\ cmd' = "launch"
    /\ pc' = "forked"
    /\ forks_left' = forks_left - 1
    /\ UNCHANGED <<jobs, nextjid, stages, pending, hpc, job, i, num_commands, wpid, out, found>>

\* addjob(jobs, pid, bg ? BG : FG, cmdline); sigprocmask(SIG_SETMASK, &prev_one, NULL);
\* then waitfg(pid) is entered or the report is printed next.
EvalAdd ==
    /\ Main
    /\ pc = "forked"
    /\ LET r == addjob(jobs, nextjid, pid, IF bg THEN BG ELSE FG, CmdLine(bg))
       IN /\ jobs' = r.jobs
          /\ nextjid' = r.nextjid
          /\ out' = [out EXCEPT !.msg = r.msg]
    /\ blocked' = FALSE
    /\ pc' = IF bg THEN "report" ELSE "waitfg"
    /\ wpid' = IF bg THEN wpid ELSE pid
    /\ UNCHANGED <<proc, stages, pending, hpc, pid, bg, cmd, job, i, num_commands, found, forks_left>>

\* printf("[%d] (%d) %s", pid2jid(pid), pid, cmdline)
EvalReport ==
    /\ Main
    /\ pc = "report"
    /\ out' = [out EXCEPT !.jid = pid2jid(jobs, pid), !.pid = pid]
    /\ pc' = "done"
    /\ UNCHANGED <<jobs, nextjid, proc, stages, pending, blocked, hpc,
                   pid, bg, cmd, job, i, num_commands, wpid, found, forks_left>>

(***************************************************************************)
(* waitfg                                                                  *)
(***************************************************************************)
\* while (pid == fgpid(jobs)) usleep(1000);
WaitfgSleep ==
    /\ Main
    /\ pc = "waitfg"
    /\ wpid = fgpid(jobs)
    /\ UNCHANGED vars

\* A waitfg that returns without looking at the foreground slot.
WaitfgReturn_nowait ==
    /\ Main
    /\ pc = "waitfg"
    /\ pc' = "done"
    /\ UNCHANGED <<jobs, nextjid, proc, stages, pending, blocked, hpc, locals, forks_left>>

WaitfgReturn ==
    /\ Main
    /\ pc = "waitfg"
    /\ wpid # fgpid(jobs)
    /\ pc' = "done"
    /\ UNCHANGED <<jobs, nextjid, proc, stages, pending, blocked, hpc, locals, forks_left>>

(***************************************************************************)
(* builtin_cmd, do_bgfg                                                    *)
(***************************************************************************)
\* Job numbers and pids a bg/fg command line can name.
JidArgs == 0..MaxLaunches

PidArgs == 0..MaxPid

\* quit
Quit ==
    /\ Main
    /\ pc = "prompt"
    /\ pc' = "exit0"
    /\ cmd' = "quit"
    /\ UNCHANGED <<jobs, nextjid, proc, stages, pending, blocked, hpc,
                   pid, bg, job, i, num_commands, wpid, out, found, forks_left>>

\* bg or fg without an argument, or with one that is neither %jid nor a pid.
BgfgUsage(c) ==
    /\ Main
    /\ pc = "prompt"
    /\ cmd' = c
    /\ out' = [out EXCEPT !.msg = "usage"]
    /\ pc' = "done"
    /\ UNCHANGED <<jobs, nextjid, proc, stages, pending, blocked, hpc,
                   pid, bg, job, i, num_commands, wpid, found, forks_left>>

\* bg %j / fg %j: job = getjobjid(jobs, jid); pid = job->pid
BgfgLookupJid(c, j) ==
    /\ Main
    /\ pc = "prompt"
    /\ cmd' = c
    /\ job' = getjobjid(jobs, j)
    /\ found' = IF job' = 0 THEN EmptyJob ELSE jobs[job']
    /\ IF job' = 0
       THEN /\ out' = [out EXCEPT !.msg = "nosuchjob"]
            /\ pc' = "done"
            /\ pid' = pid
       ELSE /\ out' = out
            /\ pc' = "bgfg_kill"
            /\ pid' = jobs[job'].pid
    /\ UNCHANGED <<jobs, nextjid, proc, stages, pending, blocked, hpc,
                   bg, i, num_commands, wpid, forks_left>>

\* bg p / fg p: pid = atoi(id); job = getjobpid(jobs, pid)
BgfgLookupPid(c, p) ==
    /\ Main
    /\ pc = "prompt"
    /\ cmd' = c
    /\ job' = getjobpid(jobs, p)
    /\ found' = IF job' = 0 THEN EmptyJob ELSE jobs[job']
    /\ pid' = p
    /\ IF job' = 0
       THEN /\ out' = [out EXCEPT !.msg = "nosuchprocess"]
            /\ pc' = "done"
       ELSE /\ out' = out
            /\ pc' = "bgfg_kill"
    /\ UNCHANGED <<jobs, nextjid, proc, stages, pending, blocked, hpc,
                   bg, i, num_commands, wpid, forks_left>>

\* if (kill(-pid, SIGCONT) < 0) unix_error("kill (SIGCONT) error");
\* a stopped process of the group runs again, and the kernel tells the
\* parent with a SIGCHLD.
BgfgKill ==
    /\ Main
    /\ pc = "bgfg_kill"
    /\ IF GroupExists(pid)
       THEN /\ proc' = IF proc[pid] \in {"stop_new", "stopped"}
                       THEN [proc EXCEPT ![pid] = "run"]
                       ELSE proc
            /\ pending' = (pending \/ proc[pid] \in {"stop_new", "stopped"})
            /\ pc' = "bgfg_write"
            /\ out' = out
       ELSE /\ UNCHANGED <<proc, pending>>
            /\ out' = [out EXCEPT !.msg = "kill (SIGCONT) error"]
            /\ pc' = "exit1"
    /\ UNCHANGED <<jobs, nextjid, stages, blocked, hpc,
                   pid, bg, cmd, job, i, num_commands, wpid, found, forks_left>>

\* fg: job->state = FG;
BgfgWriteFg ==
    /\ Main
    /\ pc = "bgfg_write"
    /\ cmd = "fg"
    /\ jobs' = [jobs EXCEPT ![job].state = FG]
    /\ pc' = "bgfg_waitarg"
    /\ UNCHANGED <<nextjid, proc, stages, pending, blocked, hpc, locals, forks_left>>

\* fg: waitfg(job->pid) is called with the pid the record holds now.
BgfgWaitArg ==
    /\ Main
    /\ pc = "bgfg_waitarg"
    /\ wpid' = jobs[job].pid
    /\ pc' = "waitfg"
    /\ UNCHANGED <<jobs, nextjid, proc, stages, pending, blocked, hpc,
                   pid, bg, cmd, job, i, num_commands, out, found, forks_left>>

\* bg: job->state = BG; printf("[%d] (%d) %s", job->jid, job->pid, job->cmdline);
BgfgWriteBg ==
    /\ Main
    /\ pc = "bgfg_write"
    /\ cmd = "bg"
    /\ jobs' = [jobs EXCEPT ![job].state = BG]
    /\ out' = [out EXCEPT !.jid = jobs[job].jid, !.pid = jobs[job].pid]
    /\ pc' = "done"
    /\ UNCHANGED <<nextjid, proc, stages, pending, blocked, hpc,
                   pid, bg, cmd, job, i, num_commands, wpid, found, forks_left>>

(***************************************************************************)
(* eval: a pipeline                                                        *)
(***************************************************************************)
\* num_commands = parsepipe(buf, commands) > 1; the pipes are created.
PipeStart(n) ==
    /\ Main
    /\ pc = "prompt"
    /\ forks_left >= n
    /\ Cardinality({p \in Pids : proc[p] = "none"}) >= n
    /\ cmd' = "pipe"
    /\ num_commands' = n
    /\ i' = 0
    /\ pc' = "pipe_fork"
    /\ UNCHANGED <<jobs, nextjid, proc, stages, pending, blocked, hpc,
                   pid, bg, job, wpid, out, found, forks_left>>

\* for (i = 0; i < num_commands; i++) pid = fork(): stage i stays in the
\* shell's process group, SIGCHLD is not blocked and no job is added.  After
\* the last fork the parent closes the pipe descriptors.
PipeFork(p) ==
    /\ Main
    /\ pc = "pipe_fork"
    /\ p \in ForkPids
    /\ proc' = [proc EXCEPT ![p] = "run"]
    /\ stages' = stages \cup {p}
    /\ pid' = p
    /\ forks_left' = forks_left - 1
    /\ IF i + 1 < num_commands
       THEN /\ i' = i + 1
            /\ pc' = "pipe_fork"
       ELSE /\ i' = 0
            /\ pc' = "pipe_wait"
    /\ UNCHANGED <<jobs, nextjid, pending, blocked, hpc,
                   bg, cmd, job, num_commands, wpid, out, found>>

\* for (i = 0; i < num_commands; i++) wait(&status): wait returns any
\* terminated child of the shell, which it reaps.
PipeWaitReap(z) ==
    /\ Main
    /\ pc = "pipe_wait"
    /\ Zombie(z)
    /\ proc' = [proc EXCEPT ![z] = "none"]
    /\ stages' = stages \ {z}
    /\ IF i + 1 < num_commands
       THEN /\ i' = i + 1
            /\ pc' = "pipe_wait"
       ELSE /\ i' = 0
            /\ pc' = "done"
    /\ UNCHANGED <<jobs, nextjid, pending, blocked, hpc,
                   pid, bg, cmd, job, num_commands, wpid, out, found, forks_left>>

\* wait returns -1 (ECHILD) at once when the shell has no child left.
PipeWaitNoChild ==
    /\ Main
    /\ pc = "pipe_wait"
    /\ \A p \in Pids : proc[p] = "none"
    /\ IF i + 1 < num_commands
       THEN /\ i' = i + 1
            /\ pc' = "pipe_wait"
       ELSE /\ i' = 0
            /\ pc' = "done"
    /\ UNCHANGED <<jobs, nextjid, proc, stages, pending, blocked, hpc,
                   pid, bg, cmd, job, num_commands, wpid, out, found, forks_left>>

(***************************************************************************)
(* main: the read/eval loop                                                *)
(***************************************************************************)
\* eval returned; the next command line is read.
MainLoop ==
    /\ Main
    /\ pc = "done"
    /\ pc' = "prompt"
    /\ pid' = 0
    /\ bg' = FALSE
    /\ cmd' = "none"
    /\ job' = 0
    /\ i' = 0
    /\ num_commands' = 0
    /\ wpid' = 0
    /\ out' = NoOut
    /\ found' = EmptyJob
    /\ UNCHANGED <<jobs, nextjid, proc, stages, pending, blocked, hpc, forks_left>>

\* The children, the kernel's signal delivery and the terminal's signals.
Env ==
    \/ \E p \in Pids : ChildExit(p)
    \/ \E p \in Pids : ChildStop(p)
    \/ HandlerEnter
    \/ \E p \in Pids : HandlerReap(p)
    \/ HandlerReturn
    \/ sigint_handler
    \/ sigtstp_handler

\* Single-command launches.
Launch ==
    \/ \E b \in BOOLEAN, p \in Pids : EvalFork(b, p)
    \/ EvalAdd
    \/ EvalReport
    \/ WaitfgSleep
    \/ WaitfgReturn
    \/ MainLoop

\* The built-in commands.
Builtin ==
    \/ Quit
    \/ \E c \in {"fg", "bg"} : BgfgUsage(c)
    \/ \E c \in {"fg", "bg"}, j \in JidArgs : BgfgLookupJid(c, j)
    \/ \E c \in {"fg", "bg"}, p \in PidArgs : BgfgLookupPid(c, p)
    \/ BgfgKill
    \/ BgfgWriteFg
    \/ BgfgWaitArg
    \/ BgfgWriteBg

\* Pipelines.
Pipeline ==
    \/ \E n \in 2..MaxStages : PipeStart(n)
    \/ \E p \in Pids : PipeFork(p)
    \/ \E z \in Pids : PipeWaitReap(z)
    \/ PipeWaitNoChild

Next == Env \/ Launch \/ Builtin \/ Pipeline

\* The shell fed any command lines.
Spec == Init /\ [][Next]_vars

\* The shell fed single-command launches only, which can fill the job table.
InitLaunch == InitState(MaxLaunches)

NextLaunch == Env \/ Launch

SpecLaunch == InitLaunch /\ [][NextLaunch]_vars

\* The shell fed single-command launches and pipelines.
NextPipe == Env \/ Launch \/ Pipeline

SpecPipe == InitLaunch /\ [][NextPipe]_vars

\* The steps sigchld_handler takes once the kernel can deliver SIGCHLD.
Handler ==
    \/ HandlerEnter
    \/ \E p \in Pids : HandlerReap(p)
    \/ HandlerReturn

\* The steps the main flow takes by itself, without a new command line.
Running ==
    \/ EvalAdd
    \/ EvalReport
    \/ WaitfgReturn
    \/ BgfgKill
    \/ BgfgWriteFg
    \/ BgfgWaitArg
    \/ BgfgWriteBg
    \/ \E p \in Pids : PipeFork(p)
    \/ \E z \in Pids : PipeWaitReap(z)
    \/ PipeWaitNoChild
    \/ MainLoop

\* The shell scheduled fairly: a deliverable SIGCHLD is delivered and the
\* handler runs to its end, and the main flow goes on whenever it can.
FairSpec == Spec /\ WF_vars(Handler) /\ WF_vars(Running)

(***************************************************************************)
(* Properties                                                              *)
(***************************************************************************)
Occupied(s) == jobs[s].pid # 0

\* The slots whose record names process p.
Records(t, p) == {s \in Slots : t[s].pid = p}

\* sigchld_handler collects p's state change in this step.
ReapStep(p) == hpc = "run" /\ Reportable(p) /\ proc'[p] # proc[p]

\* C1: in every reachable state at most one record of the job table has
\* state FG, whatever the interleaving of launches, fg/bg, forwarded
\* interrupts and stops, and runs of the reaper.
C1_AtMostOneForeground ==
    Cardinality({s \in Slots : jobs[s].state = FG}) <= 1

\* fg has put a stopped job back in the foreground while another job is listed.
C1_Witness ==
    /\ cmd = "fg"
    /\ pc = "waitfg"
    /\ \E s \in Slots : /\ jobs[s].state = FG
                        /\ jobs[s].pid = wpid
                        /\ found.state = ST
    /\ \E s \in Slots : Occupied(s) /\ jobs[s].state = BG

\* C2: no two occupied slots of the job table carry the same job number.
C2_JobNumbersUnique ==
    \A s1, s2 \in Slots :
        (s1 # s2 /\ Occupied(s1) /\ Occupied(s2)) => jobs[s1].jid # jobs[s2].jid

\* C3: every step that changes the job table is taken with SIGCHLD blocked
\* in the main flow or inside the reaper (which blocks every signal), so
\* the reaper cannot run between a main-flow lookup and the write.
C3_WritesDeferred ==
    [][(jobs' # jobs) => (blocked \/ hpc = "run")]_vars

C5_ForegroundExitUnblocks ==
    \A p \in Pids :
        (/\ pc \in {"waitfg", "bgfg_waitarg"}
         /\ \E s \in Slots : jobs[s].state = FG /\ jobs[s].pid = p
         /\ proc[p] = "zomb_exit")
        ~> (pc = "done" /\ Records(jobs, p) = {})

\* C6: a foreground single-command launch does not return to the prompt
\* while the launched child is still running, whatever the table held at
\* launch time.
C6_ForegroundLaunchWaits ==
    (pc = "done" /\ cmd = "launch" /\ ~bg) => proc[pid] # "run"

\* C7: the reaper sets the record of a foreground job that a signal stopped
\* to ST and keeps it, and a later bg on that job continues its process group
\* and leaves the record with state BG and the job number and pid it had.
C7_StopThenBg ==
    [][/\ \A p \in Pids :
            (ReapStep(p) /\ proc[p] = "stop_new") =>
                \A s \in Slots :
                    (jobs[s].pid = p /\ jobs[s].state = FG) =>
                        jobs'[s] = [jobs[s] EXCEPT !.state = ST]
       /\ (pc = "bgfg_kill" /\ cmd = "bg" /\ found.state = ST /\ pc' # pc) =>
              (pc' = "bgfg_write" /\ proc'[pid] = "run")
       /\ (pc = "bgfg_write" /\ cmd = "bg" /\ found.state = ST /\ pc' = "done") =>
              jobs'[job] = [found EXCEPT !.state = BG]]_vars

\* C8: with every slot occupied, addjob reports failure and leaves every
\* slot and the job-number counter as they were.
C8_FullTableAddUnchanged ==
    [][(pc = "forked" /\ pc' # "forked" /\ \A s \in Slots : Occupied(s)) =>
          (jobs' = jobs /\ nextjid' = nextjid /\ out'.msg = "toomany")]_vars

\* addjob has just been refused on a full table.
C8_Witness ==
    /\ pc \in {"report", "waitfg"}
    /\ out.msg = "toomany"
    /\ \A s \in Slots : Occupied(s)
    /\ Records(jobs, pid) = {}

\* C9: when a launch is refused because the table is full, eval does not
\* return to the prompt with the child of that launch still alive and
\* unlisted.
C9_RejectedLaunchAbandoned ==
    (pc = "done" /\ cmd = "launch" /\ out.msg = "toomany") =>
        proc[pid] \notin {"run", "stop_new", "stopped"}

\* C10: eval does not return from a pipeline before every stage has
\* terminated and been reaped.
C10_PipelineWaitsForStages ==
    (pc = "done" /\ cmd = "pipe") => stages = {}

\* C11: every record whose process has terminated (exited or killed by a
\* signal) is eventually removed from the job table while the shell runs,
\* whatever commands, pipelines included, the main flow executes meanwhile.
C11_TerminatedJobRemoved ==
    \A p \in Pids :
        (Records(jobs, p) # {} /\ Zombie(p)) ~> (Records(jobs, p) = {} \/ ~Alive)

\* C12: no two occupied slots of the job table hold the same process id,
\* the kernel being free to hand out again the pid of a reaped child.
C12_PidsUnique ==
    \A s1, s2 \in Slots :
        (s1 # s2 /\ Occupied(s1) /\ Occupied(s2)) => jobs[s1].pid # jobs[s2].pid

\* C13: every process the shell launched, a single command or a stage of a
\* pipeline, runs in a process group other than the shell's own.
C13_OwnProcessGroup ==
    \A p \in Pids : proc[p] # "none" => pgrp(p) # ShellPgrp

\* C14: forwarding an interrupt or a stop never modifies the job table: the
\* signal goes to the process group of the pid in the FG record, nothing is
\* sent when no record is FG, and the record of an interrupted job is
\* removed only by the reaper.
C14_ForwardKeepsTable ==
    [][/\ (sigint_handler \/ sigtstp_handler) =>
              /\ jobs' = jobs
              /\ nextjid' = nextjid
              /\ \A p \in Pids : proc'[p] # proc[p] => p = fgpid(jobs)
              /\ fgpid(jobs) = 0 => proc' = proc
       /\ \A p \in Pids :
              (proc[p] = "zomb_sig" /\ Records(jobs', p) # Records(jobs, p)) =>
                  hpc = "run"]_vars

\* The foreground job has been interrupted and its record is still listed.
C14_Witness ==
    /\ pc = "waitfg"
    /\ \E s \in Slots : /\ jobs[s].state = FG
                        /\ jobs[s].pid = wpid
                        /\ wpid \in Pids
                        /\ proc[wpid] = "zomb_sig"

\* C15: for every pid fork can return and every table on which addjob of
\* that pid succeeds, a following successful deletejob of the pid makes
\* getjobpid report that no record holds it.
C15_AddRemoveFind ==
    \A p \in Pids :
        proc[p] = "none" =>
            LET a == addjob(jobs, nextjid, p, BG, CmdLine(TRUE))
                d == deletejob(a.jobs, a.nextjid, p)
            IN (a.ret = 1 /\ d.ret = 1) => getjobpid(d.jobs, p) = 0

\* C16: after every add and every remove the job-number counter lies
\* between 1 and the ceiling addjob wraps it at (MAXJOBS), and so does every
\* job number a listed record was assigned.
C16_CounterInRange ==
    /\ nextjid \in 1..MAXJOBS
    /\ \A s \in Slots : Occupied(s) => jobs[s].jid \in 1..MAXJOBS

\* The record that belongs to child p when the reaper collects p's state
\* change: the only record that holds pid p, or, among several, the one the
\* foreground launch that is waiting for p registered (a record left over
\* from an earlier job of SpecPipe is a background one).
OwnRecord(p) ==
    IF Cardinality(Records(jobs, p)) = 1
    THEN Records(jobs, p)
    ELSE {s \in Records(jobs, p) :
              /\ cmd = "launch" /\ ~bg /\ pid = p /\ pc = "waitfg"
              /\ jobs[s].cmdline = CmdLine(FALSE)}

\* C17: for each state change the reaper collects, a stopped child's record
\* is set to ST and kept, a terminated child's record (killed by a signal or
\* exited) is removed, and a pid that matches no record leaves every slot and
\* the job-number counter unchanged.
C17_ReaperPerNotification ==
    [][\A p \in Pids :
          ReapStep(p) =>
              /\ Records(jobs, p) = {} => (jobs' = jobs /\ nextjid' = nextjid)
              /\ \A s \in OwnRecord(p) :
                    /\ proc[p] = "stop_new" => jobs'[s] = [jobs[s] EXCEPT !.state = ST]
                    /\ Zombie(p) => jobs'[s] = EmptyJob]_vars

\* C18: one run of the reaper ends without blocking; while it runs every
\* available state change is collected by it and by nothing else, and when
\* it returns none is left uncollected, however many children changed state
\* behind the one SIGCHLD delivered.
C18_ReaperDrains ==
    /\ [][/\ (hpc = "run" /\ hpc' = "idle") => \A p \in Pids : ~Reportable(p)
          /\ \A p \in Pids :
                (hpc = "run" /\ Reportable(p) /\ proc'[p] # proc[p]) =>
                    (hpc' = "run" /\ ~Reportable(p)')]_vars
    /\ (hpc = "run") ~> (hpc = "idle")

\* The reaper runs on one SIGCHLD with the state changes of two children to collect.
C18_Witness ==
    /\ hpc = "run"
    /\ ~pending
    /\ Cardinality({p \in Pids : Reportable(p)}) >= 2

\* C19: the report of a background single-command launch that was
\* registered prints a job number of 1 or more, the one the record was given,
\* whenever the child terminates and is reaped relative to the report.
C19_ReportedJobNumber ==
    (pc = "done" /\ cmd = "launch" /\ bg /\ out.msg # "toomany") =>
        /\ out.jid >= 1
        /\ \A s \in Slots : jobs[s].pid = pid => out.jid = jobs[s].jid

\* The record in slot s stays listed over the step and changes its state.
StateChange(s) ==
    /\ Occupied(s)
    /\ jobs'[s].pid = jobs[s].pid
    /\ jobs'[s].jid = jobs[s].jid
    /\ jobs'[s].state # jobs[s].state

C21_PipelineReturns ==
    (pc = "pipe_wait" /\ \A p \in stages : Zombie(p)) ~> (pc \in {"done", "prompt"})

\* C22: every slot of the job table is either empty (pid 0, job number 0,
\* state UNDEF) or occupied (pid >= 1, job number >= 1, state FG, BG or ST).
C22_SlotsWellFormed ==
    \A s \in Slots :
        \/ jobs[s].pid = 0 /\ jobs[s].jid = 0 /\ jobs[s].state = UNDEF
        \/ jobs[s].pid >= 1 /\ jobs[s].jid >= 1 /\ jobs[s].state \in {FG, BG, ST}

\* C23: once do_bgfg has finished and every notification is drained, every
\* record whose process is stopped has state ST: the state do_bgfg writes
\* after the continue signal does not replace a stop the reaper recorded.
C23_StopNotOverwritten ==
    (/\ pc \in {"done", "prompt"}
     /\ hpc = "idle"
     /\ ~pending
     /\ \A p \in Pids : ~Reportable(p)) =>
        \A s \in Slots :
            (Occupied(s) /\ proc[jobs[s].pid] = "stopped") => jobs[s].state = ST

\* C24: a bg or fg command never terminates the shell: whenever the target
\* job terminates and is reaped relative to the lookup and the continue
\* signal, do_bgfg returns or waits in waitfg and the shell reads on.
C24_BgfgNeverExits ==
    (cmd \in {"bg", "fg"}) => pc # "exit1"

====
